---------------------------- MODULE Spec2Model ----------------------------
(***************************************************************************)
(* Request construction of ipfshttpclient/client/files.py.                 *)
(*                                                                         *)
(* Every public method (Section.cp .. Section.write, Base.add .. Base.ls)  *)
(* turns its arguments into one call of the transport collaborator         *)
(* (self._client.request or self._client.download).  The model follows a   *)
(* method statement by statement: the keyword dictionary **kwargs, the     *)
(* option dictionaries it allocates (Python objects, kept in a heap and    *)
(* passed by reference), the multipart body, and the call handed over.     *)
(*                                                                         *)
(* Python values: a dict is a function whose domain is its set of keys;    *)
(* an optional argument is None or Some(v); bool and int are BOOLEAN and   *)
(* Int; a tuple of positional arguments is a sequence.                     *)
(***************************************************************************)
EXTENDS Integers, Sequences, FiniteSets, TLC

VARIABLES
    pc,       \* pc[t]: position of thread t inside the method it is running
    call,     \* call[t]: the method and the arguments the caller passed
    kwargs,   \* kwargs[t]: the method's **kwargs dict as it stands
    frame,    \* frame[t]: references to the dicts this invocation holds
    heap,     \* heap[r]: contents of the dict object at reference r
    body,     \* body[t]: (body, headers) returned by the multipart module
    sent,     \* sent[t]: the calls this invocation handed to the transport
    reply,    \* reply[t]: what the transport answered
    outcome   \* outcome[t]: what the invocation gave back to its caller

vars == <<pc, call, kwargs, frame, heap, body, sent, reply, outcome>>

---------------------------------------------------------------------------
(* Bounds of the model *)

\* Number of threads that use the one client concurrently (SpecThreads).
NThreads == 2

\* Integer arguments range over 0..MaxVal (length over -1..MaxVal).
MaxVal == 1

---------------------------------------------------------------------------
(* Python values *)

None == <<>>
Some(v) == <<v>>

EmptyDict == [k \in {} |-> TRUE]

\* dict.get(key, default) / the value dict.pop(key, default) returns
Get(d, key, default) == IF key \in DOMAIN d THEN d[key] ELSE default

\* the dict left once the keys `keys` have been popped
Without(d, keys) == [k \in DOMAIN d \ keys |-> d[k]]

Threads == 1..NThreads
Refs == 1..(2 * NThreads)


---------------------------------------------------------------------------
(* The option dictionaries the methods build *)

\* Faulty variant: parents is sent only when set (the policy of cat applied to mkdir)
mkdir_opts_sentinel(parents) == IF parents THEN [parents |-> TRUE] ELSE EmptyDict

\* Section.mkdir: the literal {"parents": parents}
mkdir_opts(parents) == [parents |-> parents]

\* Section.rm: the literal {"recursive": recursive}
rm_opts(recursive) == [recursive |-> recursive]

\* Faulty variant: opts = {"offset": offset, "count": count}, count sent also when unset
read_opts_null_count(offset, count) ==
    [offset |-> offset, count |-> IF count # None THEN count[1] ELSE -1]

\* Faulty variant: offset is suppressed at its default 0, as cat does
read_opts_sentinel(offset, count) ==
    (IF offset # 0 THEN [offset |-> offset] ELSE EmptyDict)
    @@ (IF count # None THEN [count |-> count[1]] ELSE EmptyDict)

\* Section.read: opts = {"offset": offset}; if count is not None: opts["count"] = count
read_opts(offset, count) ==
    IF count # None
    THEN [offset |-> offset, count |-> count[1]]
    ELSE [offset |-> offset]

\* Section.write: opts = {"offset": .., "create": .., "truncate": ..}, then count as in read
write_opts(offset, create, truncate, count) ==
    LET base == [offset |-> offset, create |-> create, truncate |-> truncate]
    IN  IF count # None THEN base @@ [count |-> count[1]] ELSE base

\* Faulty variant: opts = {"offset": offset, "length": length}, both always sent
cat_opts_always(offset, length) == [offset |-> offset, length |-> length]

\* Faulty variant: the test `if length != -1` is lost
cat_opts_length_always(offset, length) ==
    (IF offset # 0 THEN [offset |-> offset] ELSE EmptyDict) @@ [length |-> length]

\* Base.cat: opts = {}; offset is added if offset != 0, length if length != -1
cat_opts(offset, length) ==
    (IF offset # 0 THEN [offset |-> offset] ELSE EmptyDict)
    @@ (IF length # -1 THEN [length |-> length] ELSE EmptyDict)

\* The keyword arguments Base.add pops from **kwargs
AddPopped == {"trickle", "only_hash", "wrap_with_directory", "pin", "nocopy", "chunker"}

\* Base.add: the five kwargs.pop(name, default) entries, chunker if "chunker" in kwargs
add_opts(kw) ==
    LET base == ("trickle" :> Get(kw, "trickle", FALSE))
                @@ ("only-hash" :> Get(kw, "only_hash", FALSE))
                @@ ("wrap-with-directory" :> Get(kw, "wrap_with_directory", FALSE))
                @@ ("pin" :> Get(kw, "pin", TRUE))
                @@ ("nocopy" :> Get(kw, "nocopy", FALSE))
    IN  IF "chunker" \in DOMAIN kw THEN base @@ ("chunker" :> kw["chunker"]) ELSE base

\* Faulty variant: kwargs.get in place of kwargs.pop, nothing leaves kwargs
add_rest_kept(kw) == kw

\* Base.add: what is left in kwargs once the pops are done
add_rest(kw) == Without(kw, AddPopped)

\* Faulty variant: kwargs["opts"] = value, the caller's opts overwritten
setdefault_overwrite(d, key, value) == (key :> value) @@ d

\* dict.setdefault(key, value): the key is set only when the dict lacks it
setdefault(d, key, value) == IF key \in DOMAIN d THEN d ELSE d @@ (key :> value)

---------------------------------------------------------------------------
(* The heap of dict objects *)

\* Where thread t's new objects are placed: room for the two dicts an
\* invocation can hold (the caller's opts and the one the method builds)
Arena(t) == {2 * t - 1, 2 * t}

\* Faulty variant: one dict object shared by every call (a mutable default argument)
shared_ref(h, t) == CHOOSE r \in Refs : \A q \in Refs : r <= q

\* A new dict object: a reference no live object has
FreshRef(h, t) == CHOOSE r \in Arena(t) \ DOMAIN h : \A q \in Arena(t) \ DOMAIN h : r <= q

\* The references thread t's invocation still holds once `dropped` is given up
Live(fr, t, dropped) == UNION {IF u = t THEN fr[u] \ dropped ELSE fr[u] : u \in Threads}

\* The heap once the objects nobody references are collected
Collect(h, live) == [r \in DOMAIN h \cap live |-> h[r]]

\* What the transport reads from the keyword arguments it is handed: the
\* option dict behind the reference under "opts", the other values as they are
Deref(h, kw) == [k \in DOMAIN kw |-> IF k = "opts" THEN h[kw[k]] ELSE kw[k]]

---------------------------------------------------------------------------
(* multipart: body construction from local input *)

\* The module that encodes the body is a collaborator of this file: it is given
\* the local input and self.chunk_size, and either returns (body, headers) or
\* raises an argument error for input that is missing or malformed.  The
\* chunk size bounds its buffering and has no part in the call handed over.

\* Local inputs that exist and are well formed
GoodFiles == {"story.txt"}
GoodPatterns == {"**"}

\* multipart.stream_files(file, chunk_size): (body, headers), or an error
stream_files(file) ==
    IF file \in GoodFiles
    THEN [ok |-> TRUE, data |-> [stream |-> file], headers |-> "multipart/form-data"]
    ELSE [ok |-> FALSE, error |-> "ArgumentError"]

\* multipart.stream_filesystem_node(files, recursive, pattern, chunk_size)
stream_filesystem_node(files, recursive, pattern) ==
    IF files \in GoodFiles /\ pattern \in GoodPatterns
    THEN [ok |-> TRUE,
          data |-> [node |-> files, recursive |-> recursive, pattern |-> pattern],
          headers |-> "multipart/form-data"]
    ELSE [ok |-> FALSE, error |-> "ArgumentError"]

NoBody == [ok |-> FALSE, error |-> "unbound"]

---------------------------------------------------------------------------
(* The calls a caller makes *)

Paths == {"/a", "/b"}
Hashes == {"QmA", "QmB"}
Files == GoodFiles \cup {"missing.txt"}
Patterns == GoodPatterns \cup {"[z-a]"}
Offsets == 0..MaxVal
Lengths == -1..MaxVal
Counts == {None} \cup {Some(n) : n \in 0..MaxVal}
Chunkers == {"size-262144"}

\* Option maps a caller passes itself with opts=...
CallerMaps == {EmptyDict, [offset |-> 0, flush |-> TRUE]}

\* **kwargs of a method without keyword parameters of its own: nothing, or opts
OptsKw == {EmptyDict} \cup {[opts |-> m] : m \in CallerMaps}

\* All dicts with keys among `keys` and values in `vals`
Dicts(keys, vals) == UNION {[S -> vals] : S \in SUBSET keys}

\* **kwargs of Base.add: any of its five flags, chunker, opts
AddKw ==
    {f @@ c @@ o :
        f \in Dicts({"trickle", "only_hash", "wrap_with_directory", "pin", "nocopy"}, BOOLEAN),
        c \in Dicts({"chunker"}, Chunkers),
        o \in OptsKw}

Calls ==
         [op : {"files.cp", "files.mv"}, source : Paths, dest : Paths, kwargs : OptsKw]
    \cup [op : {"files.ls", "files.stat"}, path : Paths, kwargs : OptsKw]
    \cup [op : {"file_ls", "get", "ls"}, multihash : Hashes, kwargs : OptsKw]
    \cup [op : {"files.mkdir"}, path : Paths, parents : BOOLEAN, kwargs : OptsKw]
    \cup [op : {"files.rm"}, path : Paths, recursive : BOOLEAN, kwargs : OptsKw]
    \cup [op : {"files.read"}, path : Paths, offset : Offsets, count : Counts, kwargs : OptsKw]
    \cup [op : {"files.write"}, path : Paths, file : Files, offset : Offsets,
          create : BOOLEAN, truncate : BOOLEAN, count : Counts, kwargs : OptsKw]
    \cup [op : {"add"}, files : Files, recursive : BOOLEAN, pattern : Patterns, kwargs : AddKw]
    \cup [op : {"cat"}, multihash : Hashes, offset : Offsets, length : Lengths, kwargs : OptsKw]

NoCall == [op |-> "none"]

\* What the transport answers: a decoded value, or a remote error it raises
Replies == {"value", "ErrorResponse"}

---------------------------------------------------------------------------
(* State *)

Init ==
    /\ pc = [t \in Threads |-> "idle"]
    /\ call = [t \in Threads |-> NoCall]
    /\ kwargs = [t \in Threads |-> EmptyDict]
    /\ frame = [t \in Threads |-> {}]
    /\ heap = EmptyDict
    /\ body = [t \in Threads |-> NoBody]
    /\ sent = [t \in Threads |-> <<>>]
    /\ reply = [t \in Threads |-> "none"]
    /\ outcome = [t \in Threads |-> "pending"]

\* A caller invokes a method: the arguments are bound, **kwargs is a new dict
\* of the caller's keyword arguments, and an opts=... dict of the caller's is
\* an object of its own, passed by reference.
Invoke(t, callset) ==
    /\ pc[t] = "idle"
    /\ \E c \in callset :
        /\ call' = [call EXCEPT ![t] = c]
        /\ IF "opts" \in DOMAIN c.kwargs
           THEN LET r == FreshRef(heap, t)
                IN  /\ heap' = (r :> c.kwargs["opts"]) @@ heap
                    /\ kwargs' = [kwargs EXCEPT ![t] = [c.kwargs EXCEPT !["opts"] = r]]
                    /\ frame' = [frame EXCEPT ![t] = {r}]
           ELSE /\ heap' = heap
                /\ kwargs' = [kwargs EXCEPT ![t] = c.kwargs]
                /\ frame' = [frame EXCEPT ![t] = {}]
    /\ pc' = [pc EXCEPT ![t] = "called"]
    /\ UNCHANGED <<body, sent, reply, outcome>>

\* self._client.request(path, args, <extra keywords>, **kwargs): the call is
\* handed to the transport, which reads the option dict it is given.
request(t, path, args, extra) ==
    /\ sent' = [sent EXCEPT ![t] =
           Append(@, [fn |-> "request", path |-> path, args |-> args,
                      kw |-> Deref(heap, extra @@ kwargs[t])])]
    /\ pc' = [pc EXCEPT ![t] = "transport"]
    /\ UNCHANGED <<call, kwargs, frame, heap, body, reply, outcome>>

\* self._client.download(path, args, **kwargs)
download(t, path, args) ==
    /\ sent' = [sent EXCEPT ![t] =
           Append(@, [fn |-> "download", path |-> path, args |-> args,
                      kw |-> Deref(heap, kwargs[t])])]
    /\ pc' = [pc EXCEPT ![t] = "transport"]
    /\ UNCHANGED <<call, kwargs, frame, heap, body, reply, outcome>>

\* A method builds its option dict `d` (a new object) and runs
\* kwargs.setdefault("opts", <that dict>).
build_opts(t, d, kw) ==
    LET r == FreshRef(heap, t)
    IN  /\ heap' = (r :> d) @@ heap
        /\ frame' = [frame EXCEPT ![t] = @ \cup {r}]
        /\ kwargs' = [kwargs EXCEPT ![t] = setdefault(kw, "opts", r)]
        /\ pc' = [pc EXCEPT ![t] = "built"]
        /\ UNCHANGED <<call, body, sent, reply, outcome>>

\* The invocation ends: its frame is dropped, and the dicts nobody else
\* references are collected.
leave(t, result) ==
    /\ outcome' = [outcome EXCEPT ![t] = result]
    /\ pc' = [pc EXCEPT ![t] = "done"]
    /\ frame' = [frame EXCEPT ![t] = {}]
    /\ heap' = Collect(heap, Live(frame, t, frame[t]))
    /\ kwargs' = [kwargs EXCEPT ![t] = EmptyDict]
    /\ body' = [body EXCEPT ![t] = NoBody]
    /\ UNCHANGED <<call, sent>>

\* A local error leaves the method before the transport is reached.
raise(t, error) == leave(t, error) /\ UNCHANGED reply

At(t, op, where) == pc[t] = where /\ call[t].op = op

---------------------------------------------------------------------------
(* Section: the MFS methods *)

cp(t) ==
    /\ At(t, "files.cp", "called")
    /\ request(t, "/files/cp", <<call[t].source, call[t].dest>>, EmptyDict)

files_ls(t) ==
    /\ At(t, "files.ls", "called")
    /\ request(t, "/files/ls", <<call[t].path>>, [decoder |-> "json"])

mkdir(t) ==
    /\ At(t, "files.mkdir", "called")
    /\ build_opts(t, mkdir_opts(call[t].parents), kwargs[t])

mkdir_request(t) ==
    /\ At(t, "files.mkdir", "built")
    /\ request(t, "/files/mkdir", <<call[t].path>>, EmptyDict)

mv(t) ==
    /\ At(t, "files.mv", "called")
    /\ request(t, "/files/mv", <<call[t].source, call[t].dest>>, EmptyDict)

read(t) ==
    /\ At(t, "files.read", "called")
    /\ build_opts(t, read_opts(call[t].offset, call[t].count), kwargs[t])

read_request(t) ==
    /\ At(t, "files.read", "built")
    /\ request(t, "/files/read", <<call[t].path>>, EmptyDict)

rm(t) ==
    /\ At(t, "files.rm", "called")
    /\ build_opts(t, rm_opts(call[t].recursive), kwargs[t])

rm_request(t) ==
    /\ At(t, "files.rm", "built")
    /\ request(t, "/files/rm", <<call[t].path>>, EmptyDict)

stat(t) ==
    /\ At(t, "files.stat", "called")
    /\ request(t, "/files/stat", <<call[t].path>>, [decoder |-> "json"])

write(t) ==
    /\ At(t, "files.write", "called")
    /\ build_opts(t, write_opts(call[t].offset, call[t].create,
                                call[t].truncate, call[t].count), kwargs[t])

\* Faulty variant: the body is built lazily, a bad file is noticed only by the transport
write_body_lazy(t) ==
    /\ At(t, "files.write", "built")
    /\ body' = [body EXCEPT ![t] =
           [ok |-> TRUE, data |-> [stream |-> call[t].file], headers |-> "multipart/form-data"]]
    /\ pc' = [pc EXCEPT ![t] = "ready"]
    /\ UNCHANGED <<call, kwargs, frame, heap, sent, reply, outcome>>

\* body, headers = multipart.stream_files(file, self.chunk_size); an error it
\* raises leaves the method at once
write_body(t) ==
    /\ At(t, "files.write", "built")
    /\ LET made == stream_files(call[t].file)
       IN  IF made.ok
           THEN /\ body' = [body EXCEPT ![t] = made]
                /\ pc' = [pc EXCEPT ![t] = "ready"]
                /\ UNCHANGED <<call, kwargs, frame, heap, sent, reply, outcome>>
           ELSE raise(t, made.error)

write_request(t) ==
    /\ At(t, "files.write", "ready")
    /\ request(t, "/files/write", <<call[t].path>>,
               [data |-> body[t].data, headers |-> body[t].headers])

---------------------------------------------------------------------------
(* Base: the methods on the client itself *)

add(t) ==
    /\ At(t, "add", "called")
    /\ build_opts(t, add_opts(kwargs[t]), add_rest(kwargs[t]))

add_body(t) ==
    /\ At(t, "add", "built")
    /\ LET made == stream_filesystem_node(call[t].files, call[t].recursive, call[t].pattern)
       IN  IF made.ok
           THEN /\ body' = [body EXCEPT ![t] = made]
                /\ pc' = [pc EXCEPT ![t] = "ready"]
                /\ UNCHANGED <<call, kwargs, frame, heap, sent, reply, outcome>>
           ELSE raise(t, made.error)

add_request(t) ==
    /\ At(t, "add", "ready")
    /\ request(t, "/add", <<>>,
               [decoder |-> "json", data |-> body[t].data, headers |-> body[t].headers])

file_ls(t) ==
    /\ At(t, "file_ls", "called")
    /\ request(t, "/file/ls", <<call[t].multihash>>, [decoder |-> "json"])

get(t) ==
    /\ At(t, "get", "called")
    /\ download(t, "/get", <<call[t].multihash>>)

cat(t) ==
    /\ At(t, "cat", "called")
    /\ build_opts(t, cat_opts(call[t].offset, call[t].length), kwargs[t])

cat_request(t) ==
    /\ At(t, "cat", "built")
    /\ request(t, "/cat", <<call[t].multihash>>, EmptyDict)

ls(t) ==
    /\ At(t, "ls", "called")
    /\ request(t, "/ls", <<call[t].multihash>>, [decoder |-> "json"])

\* Faulty variant: a remote error is answered by sending the call once more
return_retry(t) ==
    /\ pc[t] = "transport"
    /\ \E r \in Replies :
        IF r # "value" /\ Len(sent[t]) < 2
        THEN /\ sent' = [sent EXCEPT ![t] = Append(@, @[1])]
             /\ UNCHANGED <<pc, call, kwargs, frame, heap, body, reply, outcome>>
        ELSE /\ reply' = [reply EXCEPT ![t] = r]
             /\ leave(t, r)

\* `return self._client.request(...)`: whatever the transport answers, a
\* value or an error it raises, is what the method gives its caller.
return(t) ==
    /\ pc[t] = "transport"
    /\ \E r \in Replies :
        /\ reply' = [reply EXCEPT ![t] = r]
        /\ leave(t, r)

\* The caller is done with the result; nothing of the call is kept.
forget(t) ==
    /\ pc[t] = "done"
    /\ pc' = [pc EXCEPT ![t] = "idle"]
    /\ call' = [call EXCEPT ![t] = NoCall]
    /\ sent' = [sent EXCEPT ![t] = <<>>]
    /\ reply' = [reply EXCEPT ![t] = "none"]
    /\ outcome' = [outcome EXCEPT ![t] = "pending"]
    /\ UNCHANGED <<kwargs, frame, heap, body>>

---------------------------------------------------------------------------
(* Specifications *)

Step(t) ==
    \/ cp(t) \/ files_ls(t) \/ mkdir(t) \/ mkdir_request(t) \/ mv(t)
    \/ read(t) \/ read_request(t) \/ rm(t) \/ rm_request(t) \/ stat(t)
    \/ write(t) \/ write_body(t) \/ write_request(t)
    \/ add(t) \/ add_body(t) \/ add_request(t)
    \/ file_ls(t) \/ get(t) \/ cat(t) \/ cat_request(t) \/ ls(t)
    \/ return(t) \/ forget(t)

\* One caller, one call after the other, over all the calls of `Calls`.
Next == \E t \in {1} : Invoke(t, Calls) \/ Step(t)

Spec == Init /\ [][Next]_vars

\* The calls the threads of SpecThreads draw from: every method, few arguments.
ThreadCalls ==
         [op : {"files.cp", "files.mv"}, source : {"/a"}, dest : {"/b"}, kwargs : {EmptyDict}]
    \cup [op : {"files.ls", "files.stat"}, path : {"/a"}, kwargs : {EmptyDict}]
    \cup [op : {"file_ls", "get", "ls"}, multihash : {"QmA"}, kwargs : {EmptyDict}]
    \cup [op : {"files.mkdir"}, path : {"/a"}, parents : {TRUE}, kwargs : {EmptyDict}]
    \cup [op : {"files.rm"}, path : {"/a"}, recursive : {FALSE},
          kwargs : {[opts |-> [offset |-> 0, flush |-> TRUE]]}]
    \cup [op : {"files.read"}, path : {"/a"}, offset : {0}, count : {None, Some(MaxVal)},
          kwargs : {EmptyDict}]
    \cup [op : {"files.write"}, path : {"/a"}, file : GoodFiles, offset : {0},
          create : {TRUE}, truncate : {FALSE}, count : {None}, kwargs : {EmptyDict}]
    \cup [op : {"add"}, files : GoodFiles, recursive : {FALSE}, pattern : GoodPatterns,
          kwargs : {[only_hash |-> TRUE]}]
    \cup [op : {"cat"}, multihash : {"QmA"}, offset : {0, MaxVal}, length : {-1},
          kwargs : {EmptyDict}]

\* Several threads use the one client at once, their steps interleaved.
NextThreads == \E t \in Threads : Invoke(t, ThreadCalls) \/ Step(t)

SpecThreads == Init /\ [][NextThreads]_vars


---------------------------------------------------------------------------
(* What a call handed to the transport *)

\* The invocation of thread t has reached the transport
Handed(t) == Len(sent[t]) >= 1

\* The call it handed over
Req(t) == sent[t][1]

\* The option map of that call
Opts(t) == Req(t).kw["opts"]

\* The caller passed no opts=... of its own
OwnOpts(t) == "opts" \notin DOMAIN call[t].kwargs

\* The method of thread t is `op`, called without opts=..., and has reached the transport
Built(t, op) == call[t].op = op /\ OwnOpts(t) /\ Handed(t)

---------------------------------------------------------------------------
(* C1 *)

\* C1: a files.read or files.write call made without opts=... hands the
\* transport an option map that has the key "count" exactly when count is not
\* None, and then with the value supplied; an unset count leaves no "count" key.
C1_CountOnlyIfSupplied ==
    \A t \in Threads :
        (Built(t, "files.read") \/ Built(t, "files.write")) =>
            /\ ("count" \in DOMAIN Opts(t)) <=> (call[t].count # None)
            /\ call[t].count # None => Opts(t)["count"] = call[t].count[1]

\* write(path, stream) without count has reached the transport, and there is no "count" key
C1_Witness ==
    \E t \in Threads :
        /\ Built(t, "files.write")
        /\ call[t].count = None
        /\ "count" \notin DOMAIN Opts(t)

---------------------------------------------------------------------------
(* C2 *)

\* C2: without opts=..., files.mkdir sends exactly {parents}, files.rm exactly
\* {recursive}, and files.write sends offset, create and truncate, each with the
\* value of its argument, whatever that value is (the defaults included).
C2_AlwaysPresent ==
    \A t \in Threads :
        /\ Built(t, "files.mkdir") => Opts(t) = [parents |-> call[t].parents]
        /\ Built(t, "files.rm") => Opts(t) = [recursive |-> call[t].recursive]
        /\ Built(t, "files.write") =>
            /\ {"offset", "create", "truncate"} \subseteq DOMAIN Opts(t)
            /\ Opts(t)["offset"] = call[t].offset
            /\ Opts(t)["create"] = call[t].create
            /\ Opts(t)["truncate"] = call[t].truncate

\* mkdir("/a") with parents at its default False has sent parents = False
C2_Witness ==
    \E t \in Threads :
        /\ Built(t, "files.mkdir")
        /\ call[t].parents = FALSE
        /\ Opts(t) = [parents |-> FALSE]

---------------------------------------------------------------------------
(* C3 *)

\* C3: without opts=..., cat sends the key offset exactly when offset differs
\* from 0 and the key length exactly when length differs from -1, each with the
\* value supplied, and no other key; the positional arguments are [multihash].
C3_CatSentinels ==
    \A t \in Threads :
        Built(t, "cat") =>
            /\ DOMAIN Opts(t) = (IF call[t].offset # 0 THEN {"offset"} ELSE {})
                                \cup (IF call[t].length # -1 THEN {"length"} ELSE {})
            /\ "offset" \in DOMAIN Opts(t) => Opts(t)["offset"] = call[t].offset
            /\ "length" \in DOMAIN Opts(t) => Opts(t)["length"] = call[t].length
            /\ Req(t).args = <<call[t].multihash>>

\* cat(h) with both defaults has sent an empty option map
C3_Witness ==
    \E t \in Threads :
        /\ Built(t, "cat")
        /\ call[t].offset = 0 /\ call[t].length = -1
        /\ Opts(t) = EmptyDict
        /\ Req(t).args = <<call[t].multihash>>

---------------------------------------------------------------------------
(* C4 *)

\* The keyword of add behind each option key, and its default
AddKeyword ==
    ("trickle" :> "trickle") @@ ("only-hash" :> "only_hash")
    @@ ("wrap-with-directory" :> "wrap_with_directory") @@ ("pin" :> "pin")
    @@ ("nocopy" :> "nocopy")

AddDefault ==
    ("trickle" :> FALSE) @@ ("only-hash" :> FALSE) @@ ("wrap-with-directory" :> FALSE)
    @@ ("pin" :> TRUE) @@ ("nocopy" :> FALSE)

\* C4: without opts=..., add sends exactly trickle, only-hash, wrap-with-directory,
\* pin, nocopy, and chunker when the caller gave one; the values are those of the
\* keyword arguments (defaults False, False, False, True, False); only_hash and
\* wrap_with_directory are neither option keys nor keywords passed on.
C4_AddOptions ==
    \A t \in Threads :
        Built(t, "add") =>
            /\ DOMAIN Opts(t) = DOMAIN AddKeyword
                   \cup (IF "chunker" \in DOMAIN call[t].kwargs THEN {"chunker"} ELSE {})
            /\ \A k \in DOMAIN AddKeyword :
                   Opts(t)[k] = Get(call[t].kwargs, AddKeyword[k], AddDefault[k])
            /\ "chunker" \in DOMAIN call[t].kwargs =>
                   Opts(t)["chunker"] = call[t].kwargs["chunker"]
            /\ {"only_hash", "wrap_with_directory"} \cap DOMAIN Opts(t) = {}
            /\ {"only_hash", "wrap_with_directory"} \cap DOMAIN Req(t).kw = {}

\* add(..., only_hash=True) has sent "only-hash": True and nothing under only_hash
C4_Witness ==
    \E t \in Threads :
        /\ Built(t, "add")
        /\ "only_hash" \in DOMAIN call[t].kwargs /\ call[t].kwargs["only_hash"]
        /\ "chunker" \notin DOMAIN call[t].kwargs
        /\ Opts(t)["only-hash"] = TRUE
        /\ "only_hash" \notin DOMAIN Opts(t) \cup DOMAIN Req(t).kw

---------------------------------------------------------------------------
(* C5 *)

\* The default each method gives the parameter behind an option key
default_of(op) ==
    CASE op = "files.mkdir" -> [parents |-> FALSE]
      [] op = "files.read"  -> [offset |-> 0]
      [] op = "files.rm"    -> [recursive |-> FALSE]
      [] op = "files.write" -> [offset |-> 0, create |-> FALSE, truncate |-> FALSE]
      [] op = "add"         -> AddDefault
      [] op = "cat"         -> [offset |-> 0, length |-> -1]
      [] OTHER              -> EmptyDict

\* The key k of the option map sent carries the default of its parameter
AtDefault(t, k) ==
    /\ k \in DOMAIN default_of(call[t].op)
    /\ Opts(t)[k] = default_of(call[t].op)[k]

\* The options the key invariant names as sent whatever their value
NamedAlwaysSent(op) ==
    CASE op = "files.write" -> {"offset", "create", "truncate"}
      [] op = "files.rm"    -> {"recursive"}
      [] op = "files.mkdir" -> {"parents"}
      [] OTHER              -> {}

\* The options the methods send whatever their value
AlwaysSent(op) ==
    CASE op = "files.read" -> {"offset"}
      [] op = "add"        -> DOMAIN AddDefault
      [] OTHER             -> NamedAlwaysSent(op)

\* The method built the option map it sent
BuiltOpts(t) == Handed(t) /\ OwnOpts(t) /\ "opts" \in DOMAIN Req(t).kw

\* C5 as stated: no key of an option map a method builds carries the default of
\* its parameter, except offset, create, truncate of write, recursive of rm and
\* parents of mkdir.
C5_AsStated ==
    \A t \in Threads :
        BuiltOpts(t) =>
            \A k \in DOMAIN Opts(t) : AtDefault(t, k) => k \in NamedAlwaysSent(call[t].op)

\* C5 amended: no key of an option map a method builds carries the default of
\* its parameter, except the keys sent whatever their value: offset, create,
\* truncate of write, recursive of rm, parents of mkdir, and also offset of read
\* and trickle, only-hash, wrap-with-directory, pin, nocopy of add.
C5_NoDefaultValuedKey ==
    \A t \in Threads :
        BuiltOpts(t) =>
            \A k \in DOMAIN Opts(t) : AtDefault(t, k) => k \in AlwaysSent(call[t].op)

\* cat(h, offset=0, length=1) has sent length alone: the offset at its default is left out
C5_Witness ==
    \E t \in Threads :
        /\ Built(t, "cat")
        /\ call[t].offset = 0 /\ call[t].length = MaxVal
        /\ Opts(t) = [length |-> MaxVal]

---------------------------------------------------------------------------
(* C6 *)

\* C6 as stated: in read and cat, offset, length and count each contribute
\* their key exactly when they are not at their default (0, -1, unset).
C6_AsStated ==
    \A t \in Threads :
        /\ Built(t, "files.read") =>
            /\ ("offset" \in DOMAIN Opts(t)) <=> (call[t].offset # 0)
            /\ ("count" \in DOMAIN Opts(t)) <=> (call[t].count # None)
        /\ Built(t, "cat") =>
            /\ ("offset" \in DOMAIN Opts(t)) <=> (call[t].offset # 0)
            /\ ("length" \in DOMAIN Opts(t)) <=> (call[t].length # -1)

\* C6 amended: in cat, offset and length, and in read, count, contribute their
\* key exactly when they are not at their default (0, -1, unset); the offset of
\* read contributes its key always, also at its default 0.
C6_SentinelKeys ==
    \A t \in Threads :
        /\ Built(t, "files.read") =>
            /\ "offset" \in DOMAIN Opts(t) /\ Opts(t)["offset"] = call[t].offset
            /\ ("count" \in DOMAIN Opts(t)) <=> (call[t].count # None)
            /\ DOMAIN Opts(t) \subseteq {"offset", "count"}
        /\ Built(t, "cat") =>
            /\ ("offset" \in DOMAIN Opts(t)) <=> (call[t].offset # 0)
            /\ ("length" \in DOMAIN Opts(t)) <=> (call[t].length # -1)
            /\ DOMAIN Opts(t) \subseteq {"offset", "length"}

\* read("/a") with offset and count at their defaults has sent offset = 0 and no count
C6_Witness ==
    \E t \in Threads :
        /\ Built(t, "files.read")
        /\ call[t].offset = 0 /\ call[t].count = None
        /\ Opts(t) = [offset |-> 0]

---------------------------------------------------------------------------
(* C7 *)

\* The multipart body of the call can be built from its local input
LocalOk(c) ==
    CASE c.op = "files.write" -> stream_files(c.file).ok
      [] c.op = "add" -> stream_filesystem_node(c.files, c.recursive, c.pattern).ok
      [] OTHER -> TRUE

\* The data the multipart module makes of the call's local input
BodyOf(c) ==
    IF c.op = "files.write"
    THEN stream_files(c.file).data
    ELSE stream_filesystem_node(c.files, c.recursive, c.pattern).data

\* C7: in files.write and add the body is built before the transport is called:
\* a call that reached the transport carries the body built from its input, and
\* when building the body fails the transport is never called for that
\* invocation and the caller gets the local argument error.
C7_LocalFailureBeforeTransport ==
    \A t \in Threads :
        call[t].op \in {"files.write", "add"} =>
            /\ Handed(t) => LocalOk(call[t]) /\ Req(t).kw["data"] = BodyOf(call[t])
            /\ ~LocalOk(call[t]) =>
                /\ sent[t] = <<>>
                /\ pc[t] = "done" => outcome[t] = "ArgumentError" /\ reply[t] = "none"

\* write of a file that does not exist has ended with the argument error, nothing sent
C7_Witness ==
    \E t \in Threads :
        /\ call[t].op = "files.write" /\ call[t].file = "missing.txt"
        /\ pc[t] = "done"
        /\ outcome[t] = "ArgumentError"
        /\ sent[t] = <<>>

---------------------------------------------------------------------------
(* C9 *)

\* C9: an invocation whose local construction succeeds hands its call to the
\* transport exactly once, never a second time, also when the transport raises
\* an error, which the caller gets as it is; get calls download and never
\* request, every other method request and never download.
C9_ExactlyOnce ==
    \A t \in Threads :
        /\ Len(sent[t]) <= 1
        /\ pc[t] \in {"transport", "done"} /\ LocalOk(call[t]) => Len(sent[t]) = 1
        /\ Handed(t) =>
            Req(t).fn = (IF call[t].op = "get" THEN "download" ELSE "request")
        /\ pc[t] = "done" /\ Handed(t) => reply[t] \in Replies /\ outcome[t] = reply[t]

\* get has ended with the transport's error after its one call of download
C9_Witness ==
    \E t \in Threads :
        /\ call[t].op = "get"
        /\ pc[t] = "done"
        /\ reply[t] = "ErrorResponse" /\ outcome[t] = "ErrorResponse"
        /\ Len(sent[t]) = 1 /\ Req(t).fn = "download"

---------------------------------------------------------------------------
(* C10 *)

\* The methods that derive option keys from their named parameters
OptionBuilders == {"files.mkdir", "files.read", "files.rm", "files.write", "add", "cat"}

\* C10: when the caller passes opts=... to mkdir, read, rm, write, add or cat,
\* the option map handed to the transport is the caller's map as it is: no key
\* the method derives from its parameters is added to it.
C10_CallerOptsUntouched ==
    \A t \in Threads :
        (Handed(t) /\ call[t].op \in OptionBuilders /\ ~OwnOpts(t)) =>
            Opts(t) = call[t].kwargs["opts"]

\* write(..., offset=1, opts={offset: 0, flush: True}) has sent the caller's map
C10_Witness ==
    \E t \in Threads :
        /\ Handed(t) /\ call[t].op = "files.write" /\ ~OwnOpts(t)
        /\ call[t].offset = MaxVal /\ call[t].create
        /\ call[t].kwargs["opts"] = [offset |-> 0, flush |-> TRUE]
        /\ Opts(t) = [offset |-> 0, flush |-> TRUE]

---------------------------------------------------------------------------
(* C8 *)

\* The endpoint of each method
PathOf(op) ==
    CASE op = "files.cp" -> "/files/cp"       [] op = "files.ls" -> "/files/ls"
      [] op = "files.mkdir" -> "/files/mkdir" [] op = "files.mv" -> "/files/mv"
      [] op = "files.read" -> "/files/read"   [] op = "files.rm" -> "/files/rm"
      [] op = "files.stat" -> "/files/stat"   [] op = "files.write" -> "/files/write"
      [] op = "add" -> "/add"                 [] op = "file_ls" -> "/file/ls"
      [] op = "get" -> "/get"                 [] op = "cat" -> "/cat"
      [] op = "ls" -> "/ls"

\* The positional arguments of a call
ArgsOf(c) ==
    CASE c.op \in {"files.cp", "files.mv"} -> <<c.source, c.dest>>
      [] c.op \in {"file_ls", "get", "cat", "ls"} -> <<c.multihash>>
      [] c.op = "add" -> <<>>
      [] OTHER -> <<c.path>>

\* The option map a call's own arguments determine: the caller's opts, else
\* the map the method builds, else none
OptsOf(c) ==
    IF "opts" \in DOMAIN c.kwargs THEN [opts |-> c.kwargs["opts"]]
    ELSE CASE c.op = "files.mkdir" -> [opts |-> mkdir_opts(c.parents)]
           [] c.op = "files.read" -> [opts |-> read_opts(c.offset, c.count)]
           [] c.op = "files.rm" -> [opts |-> rm_opts(c.recursive)]
           [] c.op = "files.write" ->
                  [opts |-> write_opts(c.offset, c.create, c.truncate, c.count)]
           [] c.op = "add" -> [opts |-> add_opts(c.kwargs)]
           [] c.op = "cat" -> [opts |-> cat_opts(c.offset, c.length)]
           [] OTHER -> EmptyDict

\* The decoder a method asks for
DecoderOf(op) ==
    IF op \in {"files.ls", "files.stat", "add", "file_ls", "ls"}
    THEN [decoder |-> "json"]
    ELSE EmptyDict

\* C8: whatever the interleaving of the threads' calls, the path, positional
\* arguments, option map and decoder a call hands to the transport are those
\* its own arguments determine, and the dict objects an invocation holds are
\* alive and held by no other invocation.
C8_OwnArgumentsAlone ==
    \A t \in Threads :
        /\ Handed(t) =>
            /\ Req(t).path = PathOf(call[t].op)
            /\ Req(t).args = ArgsOf(call[t])
            /\ [k \in DOMAIN Req(t).kw \cap {"opts", "decoder"} |-> Req(t).kw[k]]
                   = OptsOf(call[t]) @@ DecoderOf(call[t].op)
        /\ frame[t] \subseteq DOMAIN heap
        /\ \A u \in Threads \ {t} : frame[t] \cap frame[u] = {}

\* Two cat calls with different offsets are at the transport at the same time,
\* each with the option map of its own offset
C8_Witness ==
    \E t \in Threads : \E u \in Threads \ {t} :
        /\ pc[t] = "transport" /\ pc[u] = "transport"
        /\ call[t].op = "cat" /\ call[u].op = "cat"
        /\ call[t].offset = 0 /\ call[u].offset = MaxVal
        /\ Opts(t) = EmptyDict /\ Opts(u) = [offset |-> MaxVal]

=============================================================================
